---- MODULE Spec2Model ----
(***************************************************************************)
(* llamap: sitemap scrape (process_sitemap), page store (Storage) and      *)
(* summarization pipeline (summarize), modelled from src/src/*.rs.         *)
(*                                                                         *)
(* Time is counted in ticks; TicksPerSec ticks make one second, so that a  *)
(* DateTime carries a sub-second part that the store's integer columns     *)
(* (seconds) drop.                                                         *)
(***************************************************************************)
EXTENDS Integers, Sequences, FiniteSets, TLC

\* ------------------------------------------------------------------ bounds
\* events the crawl engine emits, over all runs on one database
MaxEvents == 2
\* process_sitemap runs on one database
MaxScrapeRuns == 2
\* GET requests of one extract_sitemap_url_entries call that are counted
MaxFetches == 3
\* sitemap references of one sitemap document
MaxRefs == 2
\* length sitemaps_to_process is followed up to
MaxStack == 3
\* last tick of the clock
MaxNow == 2
\* resolution of a DateTime: ticks per second
TicksPerSec == 2
\* capacity of the broadcast channel (website.subscribe(888), scaled down)
ChanCap == 1

\* largest requests-per-minute cap a summarize run is given
MaxRpm == 2
\* last slot of the summarize clock
MaxClock == 2
\* chat calls of one summarize run that are counted and recorded
MaxCalls == 3
\* summarize invocations in a row
MaxRuns == 2
\* rows fetched per batch (FETCH_BATCH_SIZE = 100, scaled down)
FetchBatchSize == 2
\* longest collection of urls handed to remove_unvisited_pages
MaxVisited == 3
\* longest chat response, in tokens
MaxLen == 5

\* ------------------------------------------------------------ option values
\* Option<T>: None is the empty set, Some(x) the singleton
None == {}
Some(x) == {x}
Unwrap(o) == CHOOSE x \in o : TRUE

Range(s) == {s[i] : i \in DOMAIN s}

RECURSIVE SetToSeq(_)
SetToSeq(S) ==
    IF S = {} THEN <<>>
    ELSE LET x == CHOOSE y \in S : TRUE IN <<x>> \o SetToSeq(S \ {x})

\* ------------------------------------------------------------------- state
VARIABLES
    fileExisted,   \* the database file was there before Storage::new
    statErr,       \* Path::try_exists returned Err
    store,         \* table pages: url -> row
    store0,        \* the table when the run started
    pc,            \* position of process_sitemap
    new,           \* Storage.new
    old,           \* Storage.old
    sitemap,       \* extract_sitemap_url_entries: url -> lastmod variant
    lookupFail,    \* urls whose get_lastmod query fails during the diff
    targets,       \* scrape_urls handed to the engine
    chan,          \* broadcast channel of page events
    lagged,        \* the receiver was overrun (RecvError::Lagged pending)
    closed,        \* website.unsubscribe() dropped the sender
    visited,       \* website.get_all_links_visited()
    failedChan,    \* unbounded mpsc channel of failed urls
    failedSent,    \* every url sent on failedChan during the run
    intake,        \* the spawned task: running | ended | aborted
    received,      \* page events the intake task took from the channel, over all runs
    upsertFailed,  \* an upsert_page of the intake task returned an error
    persisted,     \* urls whose page the intake task stored in this run
    scrapeRun,     \* process_sitemap runs started on this database
    prevSitemap,   \* the sitemap entries of the run before
    prevPersisted, \* urls whose page the run before stored
    emitted,       \* events emitted so far, over all runs
    now,           \* the clock, in ticks
    bulkDeletes,   \* bulk deletes executed (remove_unvisited_pages calls)
    result,        \* what process_sitemap returned: none | Ok | Err
    \* a caller of the store: upsert_page, then get_page
    opPc,          \* idle | upserted | got | removed | applied | parsed | updated
    updCall,       \* the url and summary handed to update_page_summary, its result
    written,       \* the Page handed to upsert_page
    got,           \* what get_page returned
    opStore0,      \* the table before the caller's last remove_unvisited_pages
    visitedArg,    \* the collection handed to remove_unvisited_pages
    removeRes,     \* what remove_unvisited_pages returned
    artPage,       \* the Page apply_article was called on (read with get_page)
    article,       \* the PageArticle handed to apply_article
    applied,       \* the Page after apply_article
    \* summarize
    sumPc,         \* idle | fetch | single | limiter | sleep | chat | done
    sumTarget,     \* SummarizeTarget
    rpm,           \* Option<u32>: the requests-per-minute cap
    rowids,        \* the urls in rowid order (the scan order of the table)
    bucket,        \* Option<StdTokenBucket>
    clock,         \* the time source of the limiter, in slots
    batch,         \* what is left of the fetched batch: (url, text) pairs
    offset,        \* summarize_all_pages: offset
    hasMore,       \* summarize_all_pages: has_more
    processed,     \* summarize_fetched_pages: processed
    procUrls,      \* urls whose summary this invocation wrote
    callTimes,     \* the slot in which each chat call of this invocation was issued
    runNo,         \* invocations started so far
    prev,          \* result and processed count of the invocation before
    sumStore0,     \* the table when this invocation started
    sumResult,     \* none | Ok | Err
    sumStatus,     \* the final log line: none | NothingToDo | Summarized
    chatFailed,    \* a chat call of this invocation returned an error
    waited,        \* a try_acquire of the current summarize_page failed
    \* summarize_page on one chat response
    stripPc,       \* off | idle | stripped
    chatResponse,  \* the text model.chat returned
    pageSummary,   \* the summary summarize_page returned
    \* compose
    composePc,     \* off | idle | done
    digest,        \* the blocks written to the output file, in order
    \* tasks sharing one Storage
    connLock,      \* Mutex<Connection>: the task holding the guard, if any
    taskPc,        \* per task: idle | lock | upsert | get | create | fill | delete
    taskOp,        \* per task: the store operation it called, with its argument
    tempTable      \* temp_visited_urls of the shared connection

\* the state of a process_sitemap run, the table and the clock aside
runVars == <<fileExisted, statErr, store0, pc, new, old, sitemap, lookupFail,
             targets, chan, lagged, closed, visited, failedChan, failedSent,
             intake, received, upsertFailed, persisted, scrapeRun,
             prevSitemap, prevPersisted, emitted, bulkDeletes, result>>

scrapeVars == <<store, now, runVars>>

opVars == <<opPc, written, got, opStore0, visitedArg, removeRes, artPage,
           article, applied, updCall>>

sumVars == <<sumPc, sumTarget, rpm, rowids, bucket, clock, batch, offset,
             hasMore, processed, procUrls, callTimes, runNo, prev, sumStore0,
             sumResult, sumStatus, chatFailed, waited>>

stripVars == <<stripPc, chatResponse, pageSummary>>

composeVars == <<composePc, digest>>

lockVars == <<connLock, taskPc, taskOp, tempTable>>

\* extract_sitemap_url_entries
VARIABLES
    smPc,          \* off | loop | get | read | done
    smDocs,        \* the sitemap documents on the web, by url
    smStack,       \* sitemaps_to_process
    smCurrent,     \* current_sitemap
    smEntries,     \* the locs that are keys of entries
    smFetches,     \* GET requests sent, counted up to MaxFetches
    smResult       \* none | Ok | Err

sitemapVars == <<smPc, smDocs, smStack, smCurrent, smEntries, smFetches,
                 smResult>>

\* summarize_page, the messages of the chat call
VARIABLES
    promptPc,       \* off | idle | built
    promptTemplate, \* ctx.prompt_template
    promptUrl,      \* url
    promptText,     \* text
    messages        \* the messages handed to model.chat

promptVars == <<promptPc, promptTemplate, promptUrl, promptText, messages>>

vars == <<scrapeVars, opVars, sumVars, stripVars, composeVars, lockVars,
          sitemapVars, promptVars>>

\* ------------------------------------------------------------------- urls
\* url strings as the engine reports them: "B" is a second spelling of "b"
\* (Url::parse normalises it), "%" does not parse
RawUrls == {"a", "b", "B", "%"}
\* normalised urls: the keys of the table and of the sitemap map
Urls == {"a", "b"}

\* Url::parse(s) followed by as_str(): None when the string is no url
UrlParse(s) ==
    IF s = "%" THEN None
    ELSE IF s = "B" THEN Some("b")
    ELSE Some(s)

\* ------------------------------------------------------------- timestamps
\* DateTime::timestamp(): whole seconds, the sub-second part dropped
Timestamp(t) == t \div TicksPerSec
\* DateTime::from_timestamp(secs, 0) / from_timestamp_secs(secs)
FromTimestamp(secs) == secs * TicksPerSec

\* ------------------------------------------------------------------ store
EmptyStore == [u \in {} |-> 0]

\* str::unwrap_or_default on Option<&str>
UnwrapOrDefault(o) == IF o = None THEN "" ELSE Unwrap(o)

\* INSERT OR REPLACE of the full row, keyed by url
UpsertPage(st, page) ==
    (page.url :> [added_at |-> Timestamp(page.added_at),
                  lastmod  |-> Timestamp(page.lastmod),
                  html     |-> page.html,
                  title    |-> page.title,
                  text     |-> Some(UnwrapOrDefault(page.text)),
                  summary  |-> page.summary]) @@ st

\* TryFrom<PageRow> for Page
PageFromRow(url, row) ==
    [url      |-> Unwrap(UrlParse(url)),
     added_at |-> FromTimestamp(row.added_at),
     lastmod  |-> FromTimestamp(row.lastmod),
     html     |-> row.html,
     title    |-> row.title,
     text     |-> row.text,
     summary  |-> row.summary]

\* SELECT ... WHERE url = ?1, .optional()
GetPage(st, url) ==
    IF url \in DOMAIN st THEN Some(PageFromRow(url, st[url])) ELSE None

\* SELECT lastmod FROM pages WHERE url = ?1
GetLastmod(st, url) ==
    IF url \in DOMAIN st THEN Some(st[url].lastmod) ELSE None

\* the DELETE as it would be with IN for NOT IN: the listed rows are removed
RemoveVisitedPages(st, urls) ==
    LET keep == DOMAIN st \ Range(urls) IN
    [store |-> [u \in keep |-> st[u]],
     ok    |-> TRUE,
     count |-> Cardinality(DOMAIN st \ keep)]

\* Storage::remove_unvisited_pages. The temp table has url as PRIMARY KEY: a
\* url listed twice fails the INSERT before the DELETE is reached.
RemoveUnvisitedPages(st, urls) ==
    IF Cardinality(Range(urls)) # Len(urls)
    THEN [store |-> st, ok |-> FALSE, count |-> 0]
    ELSE LET keep == DOMAIN st \cap Range(urls) IN
         [store |-> [u \in keep |-> st[u]],
          ok    |-> TRUE,
          count |-> Cardinality(DOMAIN st \ keep)]

\* apply_article as it would be with the page's own title taking precedence
ApplyArticleKeepsTitle(page, a) ==
    [page EXCEPT !.text = Some(a.text),
                 !.title = IF page.title = None THEN a.title ELSE page.title]

\* apply_article as it would be if it also reset the summary
ApplyArticleDropsSummary(page, a) ==
    [page EXCEPT !.text = Some(a.text),
                 !.title = IF a.title # None THEN a.title ELSE page.title,
                 !.summary = None]

\* Page::apply_article
ApplyArticle(page, a) ==
    [page EXCEPT !.text = Some(a.text),
                 !.title = IF a.title # None THEN a.title ELSE page.title]

\* parse_db_html for one url, the extraction yielding article a: get_page,
\* apply_article, upsert_page; a url that has no row is skipped
ParsePage(st, url, a) ==
    IF GetPage(st, url) = None THEN st
    ELSE UpsertPage(st, ApplyArticle(Unwrap(GetPage(st, url)), a))

\* DELETE FROM pages WHERE url NOT IN (SELECT url FROM temp_visited_urls)
DeleteNotInTemp(st, temp) == [u \in DOMAIN st \cap temp |-> st[u]]

\* conn.lock() as it would be if it returned a guard whoever holds the mutex
MutexLockNoWait(holder) == TRUE

\* self.conn.lock(): returns the guard once no task holds the mutex
MutexLock(holder) == holder = None

\* --------------------------------------------------------- Storage::new
\* Path::try_exists on the database path
PathTryExists(existed, err) ==
    IF err THEN "Err" ELSE IF existed THEN "OkTrue" ELSE "OkFalse"

\* let new = Path::new(database_path).try_exists().is_err()
StorageNewFlag(tryExists) == tryExists = "Err"

\* old: !new
StorageOldFlag(isNew) == ~isNew

\* ------------------------------------------------------ sitemap diff
\* sitemap::structs::LastMod
LastModNone == [kind |-> "None", t |-> 0]
LastModParseErr == [kind |-> "ParseErr", t |-> 0]
LastModDateTime(t) == [kind |-> "DateTime", t |-> t]

ResOk(v) == [ok |-> TRUE, v |-> v]
ResErr == [ok |-> FALSE, v |-> FALSE]
\* Result::unwrap_or
UnwrapOr(r, d) == IF r.ok THEN r.v ELSE d

\* should_scrape as it would be with a url that has no row skipped
ShouldScrapeSkipsMissingRow(st, url, lastmod, dbOk) ==
    IF lastmod.kind = "DateTime"
    THEN IF ~dbOk THEN ResErr
         ELSE IF GetLastmod(st, url) = None THEN ResOk(FALSE)
         ELSE ResOk(lastmod.t # FromTimestamp(Unwrap(GetLastmod(st, url))))
    ELSE ResOk(TRUE)

\* Storage::should_scrape; dbOk: the get_lastmod query succeeds
ShouldScrape(st, url, lastmod, dbOk) ==
    IF lastmod.kind = "DateTime"
    THEN IF ~dbOk THEN ResErr
         ELSE IF GetLastmod(st, url) = None THEN ResOk(TRUE)
         ELSE ResOk(lastmod.t # FromTimestamp(Unwrap(GetLastmod(st, url))))
    ELSE ResOk(TRUE)

\* Storage::resolve_modified; failing: the urls whose lookup fails
ResolveModified(st, entries, failing) ==
    {u \in DOMAIN entries :
        UnwrapOr(ShouldScrape(st, u, entries[u], u \notin failing), TRUE)}

\* setup_website_and_storage: the scrape_urls
ScrapeUrls(isNew, st, entries, failing) ==
    IF isNew THEN DOMAIN entries ELSE ResolveModified(st, entries, failing)

\* ------------------------------------------------------------- intake
\* the loop body as it would be without the status check: the page of a
\* failed fetch is stored like any other
IntakeEventNoStatusCheck(ev, st, fch, t, dbOk) ==
    IF UrlParse(ev.url) = None
    THEN [store |-> st, failed |-> Append(fch, ev.url), stop |-> FALSE,
          err |-> FALSE]
    ELSE [store  |-> UpsertPage(st, [url      |-> Unwrap(UrlParse(ev.url)),
                                     added_at |-> t,
                                     lastmod  |-> t,
                                     html     |-> ev.html,
                                     title    |-> ev.title,
                                     text     |-> None,
                                     summary  |-> None]),
          failed |-> fch,
          stop   |-> FALSE,
          err    |-> FALSE]

\* the loop body as it would be with `continue` for `return` after a failed
\* upsert
IntakeEventContinuesOnError(ev, st, fch, t, dbOk) ==
    IF ~ev.ok \/ UrlParse(ev.url) = None
    THEN [store |-> st, failed |-> Append(fch, ev.url), stop |-> FALSE,
          err |-> FALSE]
    ELSE IF dbOk
    THEN [store  |-> UpsertPage(st, [url      |-> Unwrap(UrlParse(ev.url)),
                                     added_at |-> t,
                                     lastmod  |-> t,
                                     html     |-> ev.html,
                                     title    |-> ev.title,
                                     text     |-> None,
                                     summary  |-> None]),
          failed |-> fch,
          stop   |-> FALSE,
          err    |-> FALSE]
    ELSE [store |-> st, failed |-> fch, stop |-> FALSE, err |-> TRUE]

\* the body of the intake loop for one received page event;
\* t: Utc::now(), dbOk: upsert_page succeeds.
\* stop: the task returns, err: upsert_page returned an error
IntakeEvent(ev, st, fch, t, dbOk) ==
    IF ~ev.ok
    THEN [store |-> st, failed |-> Append(fch, ev.url), stop |-> FALSE,
          err |-> FALSE]
    ELSE IF UrlParse(ev.url) = None
    THEN [store |-> st, failed |-> Append(fch, ev.url), stop |-> FALSE,
          err |-> FALSE]
    ELSE LET db_page == [url      |-> Unwrap(UrlParse(ev.url)),
                         added_at |-> t,
                         lastmod  |-> t,
                         html     |-> ev.html,
                         title    |-> ev.title,
                         text     |-> None,
                         summary  |-> None]
         IN IF dbOk
            THEN [store |-> UpsertPage(st, db_page), failed |-> fch,
                  stop |-> FALSE, err |-> FALSE]
            ELSE [store |-> st, failed |-> fch, stop |-> TRUE, err |-> TRUE]

\* handle.await as it would be if it returned at once, the task still running
HandleAwaitNoWait(task) == TRUE

\* handle.await returns once the spawned task has returned
HandleAwait(task) == task \in {"ended", "aborted"}

\* ------------------------------------------------------ reconciliation
\* cleanup_unvisited_pages: the visited links minus every failed url drained
\* from the channel, then one remove_unvisited_pages
CleanupUnvisitedPages(st, vis, fch) ==
    LET scraped_urls == SetToSeq(vis \ Range(fch))
        r == RemoveUnvisitedPages(st, scraped_urls)
    IN [store |-> r.store, failed |-> <<>>, deletes |-> 1]

\* The tail of process_sitemap, had the future been awaited
ThenCleanupAwaited(isOld, st, vis, fch) ==
    IF isOld THEN CleanupUnvisitedPages(st, vis, fch)
    ELSE [store |-> st, failed |-> fch, deletes |-> 0]

\* storage.old.then(async || cleanup_unvisited_pages(..).await);
\* bool::then calls the async closure, which only builds the future; the
\* Option<future> is dropped at the end of the statement and never polled,
\* so the body of cleanup_unvisited_pages does not run.
ThenCleanup(isOld, st, vis, fch) ==
    [store |-> st, failed |-> fch, deletes |-> 0]

\* ---------------------------------------------------------- summarize
Max(a, b) == IF a >= b THEN a ELSE b
Min(a, b) == IF a <= b THEN a ELSE b
SetMax(S) == CHOOSE x \in S : \A y \in S : y <= x
SetMin(S) == CHOOSE x \in S : \A y \in S : x <= y

RECURSIVE Factorial(_)
Factorial(n) == IF n <= 1 THEN 1 ELSE n * Factorial(n - 1)

\* slots of the limiter's clock in 60 seconds: every capacity divides it
MinuteSlots == Factorial(MaxRpm)

\* the rate limiter built by summarize for rpm = Some(r), at time t:
\* capacity max(r, 1), one token back every 60 s / capacity, full at first
TokenBucket(r, t) ==
    LET capacity == Max(r, 1) IN
    [capacity     |-> capacity,
     refill_every |-> MinuteSlots \div capacity,
     tokens       |-> capacity,
     last         |-> t]

\* try_acquire as it would be if it granted every request and took nothing
TryAcquireAlways(b, t) == [ok |-> TRUE, bucket |-> b]

\* limiter.try_acquire(1) at time t: refill for the intervals elapsed, then
\* take one token if there is one
TryAcquire(b, t) ==
    LET n == (t - b.last) \div b.refill_every
        avail == Min(b.capacity, b.tokens + n)
        nb == [b EXCEPT !.tokens = avail, !.last = b.last + n * b.refill_every]
    IN IF avail >= 1
       THEN [ok |-> TRUE, bucket |-> [nb EXCEPT !.tokens = avail - 1]]
       ELSE [ok |-> FALSE, bucket |-> nb]

\* A text is a sequence of tokens: the tags "<think>" and "</think>", white
\* space (" ", "\n") and words.
IsSpace(c) == c \in {" ", "\n"}

RECURSIVE TrimStart(_)
TrimStart(s) == IF s # <<>> /\ IsSpace(Head(s)) THEN TrimStart(Tail(s)) ELSE s

RECURSIVE TrimEnd(_)
TrimEnd(s) ==
    IF s # <<>> /\ IsSpace(s[Len(s)])
    THEN TrimEnd(SubSeq(s, 1, Len(s) - 1))
    ELSE s

\* str::trim
Trim(s) == TrimEnd(TrimStart(s))

\* THINK_STRIPPER_REGEX.replace_all(response, ""): <think>[\s\S]*</think>\s*
\* The leftmost match starts at the first <think> with a </think> after it;
\* [\s\S]* is greedy, so the match runs to the last </think> and the white
\* space after it. No </think> is left after it for a second match.
ThinkStripper(s) ==
    LET closes == {j \in DOMAIN s : s[j] = "</think>"}
        opens == {i \in DOMAIN s : s[i] = "<think>" /\ \E j \in closes : j > i}
    IN IF opens = {} THEN s
       ELSE SubSeq(s, 1, SetMin(opens) - 1)
            \o TrimStart(SubSeq(s, SetMax(closes) + 1, Len(s)))

\* summarize_page: the summary made of a chat response
SummaryOf(response) == Trim(ThinkStripper(response))

\* WHERE summary IS NULL OR summary = ''
SummaryMissing(row) == row.summary = None \/ row.summary = Some(<<>>)

Pos(seq, x) == CHOOSE i \in DOMAIN seq : seq[i] = x

\* the rows S of the table ORDER BY added_at ASC; SQLite's sorter keeps rows
\* of equal added_at in scan (rowid) order
OrderByAddedAt(st, S, scan) ==
    LET before(u, v) ==
            \/ st[u].added_at < st[v].added_at
            \/ st[u].added_at = st[v].added_at /\ Pos(scan, u) < Pos(scan, v)
        rank(u) == Cardinality({v \in S : before(v, u)}) + 1
    IN [i \in 1..Cardinality(S) |-> CHOOSE u \in S : rank(u) = i]

\* SELECT url, text of the listed rows
UrlText(st, seq) ==
    [i \in DOMAIN seq |-> [url |-> seq[i], text |-> Unwrap(st[seq[i]].text)]]

\* the WHERE clause as it would be with only the NULL test
FetchUnsummarizedNullOnly(st, limit, scan) ==
    LET seq == OrderByAddedAt(st, {u \in DOMAIN st : st[u].summary = None}, scan)
    IN UrlText(st, SubSeq(seq, 1, Min(limit, Len(seq))))

\* Storage::fetch_unsummarized_pages
FetchUnsummarizedPages(st, limit, scan) ==
    LET seq == OrderByAddedAt(st, {u \in DOMAIN st : SummaryMissing(st[u])}, scan)
    IN UrlText(st, SubSeq(seq, 1, Min(limit, Len(seq))))

\* fetch_pages as it would be with the OFFSET left out
FetchPagesNoOffset(st, limit, off, scan) ==
    LET seq == OrderByAddedAt(st, DOMAIN st, scan)
    IN UrlText(st, SubSeq(seq, 1, Min(limit, Len(seq))))

\* Storage::fetch_pages
FetchPages(st, limit, off, scan) ==
    LET seq == OrderByAddedAt(st, DOMAIN st, scan)
    IN UrlText(st, SubSeq(seq, off + 1, Min(off + limit, Len(seq))))

\* fetch_page_content as it would be with '' for a url that has no row
FetchPageContentOrEmpty(st, url) ==
    IF url \in DOMAIN st THEN Some(Unwrap(st[url].text)) ELSE Some("")

\* Storage::fetch_page_content
FetchPageContent(st, url) ==
    IF url \in DOMAIN st THEN Some(Unwrap(st[url].text)) ELSE None

\* update_page_summary as it would be without the WHERE clause
UpdateEverySummary(st, url, summary) ==
    [u \in DOMAIN st |-> [st[u] EXCEPT !.summary = Some(summary)]]

\* Storage::update_page_summary: UPDATE pages SET summary = ?1 WHERE url = ?2
UpdatePageSummary(st, url, summary) ==
    IF url \in DOMAIN st
    THEN [st EXCEPT ![url].summary = Some(summary)]
    ELSE st

\* update_page_summary returns Ok(()) once the UPDATE has run, whatever the
\* number of rows it changed
UpdatePageSummaryOk(st, url) == TRUE

\* summarize_page(..).await? as it would be with the error logged and the
\* page skipped
SwallowChatError(kind) == FALSE

\* summarize_page(..).await? in summarize_fetched_pages and
\* summarize_single_page: an Err is returned to the caller at once
PropagateChatError(kind) == TRUE

\* ------------------------------------------------------------ compose
\* all orders in which the urls of S can be listed
Orderings(S) ==
    {f \in [1..Cardinality(S) -> S] : \A u \in S : \E i \in DOMAIN f : f[i] = u}

\* Storage::list_urls: SELECT url FROM pages, in no stated order
ListUrls(st) == Orderings(DOMAIN st)

\* the heading of a block: [title](url), or the bare url
Heading(page) ==
    IF page.title # None
    THEN <<"[", Unwrap(page.title), "](", page.url, ")">>
    ELSE <<page.url>>

\* the loop of compose as it would be with an empty summary skipped too
RECURSIVE ComposeBlocksNonEmpty(_, _)
ComposeBlocksNonEmpty(st, urls) ==
    IF urls = <<>> THEN <<>>
    ELSE LET page == GetPage(st, Head(urls))
             rest == ComposeBlocksNonEmpty(st, Tail(urls))
         IN IF page = None THEN rest
            ELSE IF Unwrap(page).summary \in {None, Some(<<>>)} THEN rest
            ELSE <<[heading |-> Heading(Unwrap(page)),
                    summary |-> Unwrap(Unwrap(page).summary)]>> \o rest

\* the loop of compose over the listed urls: a block for every page that
\* get_page returns with summary Some(..)
RECURSIVE ComposeBlocks(_, _)
ComposeBlocks(st, urls) ==
    IF urls = <<>> THEN <<>>
    ELSE LET page == GetPage(st, Head(urls))
             rest == ComposeBlocks(st, Tail(urls))
         IN IF page = None THEN rest
            ELSE IF Unwrap(page).summary = None THEN rest
            ELSE <<[heading |-> Heading(Unwrap(page)),
                    summary |-> Unwrap(Unwrap(page).summary)]>> \o rest

\* ------------------------------------------------------------- prompt
\* A template, a url and a text are sequences of tokens; "{url}" and
\* "{text}" are the placeholders.
\* str::replace(from, to): every occurrence of from, left to right, one pass
RECURSIVE Replace(_, _, _)
Replace(s, from, to) ==
    IF s = <<>> THEN <<>>
    ELSE (IF Head(s) = from THEN to ELSE <<Head(s)>>)
         \o Replace(Tail(s), from, to)

\* str::contains
Contains(s, tok) == \E i \in DOMAIN s : s[i] = tok

DEFAULT_PROMPT_TEMPLATE ==
    <<"\nYou will see a webpage content from ", "{url}",
      ".\nCreate its concise summary for a digest. ...">>

\* summarize_page up to the chat call: the prompt is the template with
\* {url} replaced, then {text} replaced in the result; the text follows as
\* a second message when the template holds no {text}
BuildMessages(template, url, text) ==
    LET prompt_template == IF template = None THEN DEFAULT_PROMPT_TEMPLATE
                           ELSE Unwrap(template)
        prompt == Replace(Replace(prompt_template, "{url}", url), "{text}", text)
    IN IF ~Contains(prompt_template, "{text}")
       THEN <<prompt, text>>
       ELSE <<prompt>>

\* the final log line of summarize
Report(total_processed) ==
    IF total_processed = 0 THEN "NothingToDo" ELSE "Summarized"

\* ------------------------------------------------------------- inputs
Row0 == [added_at |-> 0, lastmod |-> 0, html |-> "h0", title |-> Some("t0"),
         text |-> Some("x0"), summary |-> Some(<<"s0">>)]

\* tables a run can start from
ScrapeStores == {[u \in D |-> Row0] : D \in SUBSET Urls}
DiffStores ==
    UNION {[D -> {[Row0 EXCEPT !.lastmod = l] : l \in 0..1}] : D \in SUBSET Urls}

LastMods ==
    {LastModNone, LastModParseErr} \cup {LastModDateTime(t) : t \in 0..MaxNow}
ScrapeSitemaps ==
    {("a" :> LastModDateTime(0)) @@ ("b" :> LastModNone),
     ("a" :> LastModDateTime(1)),
     ("b" :> LastModDateTime(0))}
DiffSitemaps == UNION {[D -> LastMods] : D \in SUBSET Urls}

\* page events of the engine: a failed fetch carries no document
Events ==
    {[url |-> u, ok |-> FALSE, title |-> None, html |-> ""] : u \in RawUrls}
    \cup {[url |-> u, ok |-> TRUE, title |-> ti, html |-> h] :
            u \in RawUrls, ti \in {None, Some("t1")}, h \in {"h1", "h2"}}

\* Page values a caller can hand to upsert_page
Pages ==
    [url : Urls, added_at : 0..MaxNow, lastmod : 0..MaxNow, html : {"h1"},
     title : {None, Some("t1")}, text : {None, Some("x1")},
     summary : {None, Some(<<"s1">>)}]

\* collections of urls a caller can hand to remove_unvisited_pages: "c" has
\* no row, and a url may be listed twice
VisitedLists == UNION {[1..n -> {"a", "b", "c"}] : n \in 0..MaxVisited}

\* PageArticle values: what extract_article returns
PageArticles == [title : {None, Some("t1"), Some("t2")}, text : {"", "x2"}]

\* summaries a caller can hand to update_page_summary
UpdSummaries == {<<>>, <<"s2">>}

\* urls of the tables summarize runs on
SumUrls == {"a", "b", "c"}

\* "a" and "b" were added in the same second, "c" later
SumRow(u, sm) ==
    [added_at |-> IF u = "c" THEN 1 ELSE 0, lastmod |-> 0, html |-> "h0",
     title |-> None, text |-> Some("x0"), summary |-> sm]

SumSummaries(u) ==
    {None, Some(<<"s0">>)} \cup (IF u = "a" THEN {Some(<<>>)} ELSE {})

SumStores ==
    UNION {{[u \in D |-> SumRow(u, f[u])] :
              f \in {g \in [D -> {None, Some(<<>>), Some(<<"s0">>)}] :
                       \A u \in D : g[u] \in SumSummaries(u)}} :
           D \in SUBSET SumUrls}

SumTargets ==
    {[kind |-> "Unsummarized", url |-> ""], [kind |-> "All", url |-> ""],
     [kind |-> "Page", url |-> "a"], [kind |-> "Page", url |-> "c"]}

\* chat responses: a bare summary, one after a reasoning block, and a
\* reasoning block with nothing after it
Responses ==
    {<<"x">>, <<"<think>", "r", "</think>", "\n", "x">>, <<"<think>", "</think>">>}

\* tables compose runs on: rows with and without a title, with no summary,
\* an empty one and a filled one
ComposeStores ==
    UNION {[D -> {[Row0 EXCEPT !.title = ti, !.summary = sm] :
                    ti \in {None, Some("t0")},
                    sm \in {None, Some(<<>>), Some(<<"s0">>)}}] :
           D \in SUBSET SumUrls}

\* the tasks that share the Storage
Tasks == {"t1", "t2"}

\* a task that has called no store operation
NoOp == [op |-> "none", page |-> None, url |-> "", urls |-> <<>>]

\* the store operations a task can call
TaskOps ==
    {[op |-> "upsert", page |-> Some(p), url |-> "", urls |-> <<>>] :
        p \in {q \in Pages : /\ q.added_at = 0 /\ q.lastmod = 0
                              /\ q.title = None /\ q.text = Some("x1")
                              /\ q.summary = None}}
    \cup {[op |-> "get", page |-> None, url |-> u, urls |-> <<>>] : u \in Urls}
    \cup {[op |-> "remove", page |-> None, url |-> "", urls |-> l] :
            l \in {<<>>, <<"a">>, <<"b", "a">>, <<"a", "a">>}}

\* the tokens of a chat response
ChatTokens == {"<think>", "</think>", "\n", "r", "x"}

\* chat responses of up to MaxLen tokens
ChatTexts == UNION {[1..n -> ChatTokens] : n \in 0..MaxLen}

\* --------------------------------------------------------------- Init
InitRun(stores, sitemaps) ==
    /\ fileExisted \in BOOLEAN
    /\ statErr \in BOOLEAN
    /\ store \in (IF fileExisted THEN stores ELSE {EmptyStore})
    /\ store0 = store
    /\ pc = "init"
    /\ new = FALSE
    /\ old = FALSE
    /\ sitemap \in sitemaps
    /\ lookupFail = {}
    /\ targets = {}
    /\ chan = <<>>
    /\ lagged = FALSE
    /\ closed = FALSE
    /\ visited = {}
    /\ failedChan = <<>>
    /\ failedSent = {}
    /\ intake = "none"
    /\ received = 0
    /\ upsertFailed = FALSE
    /\ persisted = {}
    /\ scrapeRun = 1
    /\ prevSitemap = EmptyStore
    /\ prevPersisted = {}
    /\ emitted = 0
    /\ now = 0
    /\ bulkDeletes = 0
    /\ result = "none"

\* no process_sitemap run: the table is there, opened by another command
InitNoRun(stores) ==
    /\ fileExisted = TRUE
    /\ statErr = FALSE
    /\ store \in stores
    /\ store0 = store
    /\ pc = "idle"
    /\ new = FALSE
    /\ old = TRUE
    /\ sitemap = EmptyStore
    /\ lookupFail = {}
    /\ targets = {}
    /\ chan = <<>>
    /\ lagged = FALSE
    /\ closed = FALSE
    /\ visited = {}
    /\ failedChan = <<>>
    /\ failedSent = {}
    /\ intake = "none"
    /\ received = 0
    /\ upsertFailed = FALSE
    /\ persisted = {}
    /\ scrapeRun = 1
    /\ prevSitemap = EmptyStore
    /\ prevPersisted = {}
    /\ emitted = 0
    /\ now = 0
    /\ bulkDeletes = 0
    /\ result = "none"

\* no caller is using the store
InitOpIdle ==
    /\ opPc = "idle"
    /\ written = None
    /\ got = None
    /\ opStore0 = store
    /\ visitedArg = <<>>
    /\ removeRes = None
    /\ artPage = None
    /\ article = None
    /\ applied = None
    /\ updCall = None

\* summarize is not in use
InitSumIdle ==
    /\ sumPc = "off"
    /\ sumTarget = [kind |-> "Unsummarized", url |-> ""]
    /\ rpm = None
    /\ rowids = <<>>
    /\ bucket = None
    /\ clock = 0
    /\ batch = <<>>
    /\ offset = 0
    /\ hasMore = TRUE
    /\ processed = 0
    /\ procUrls = {}
    /\ callTimes = <<>>
    /\ runNo = 0
    /\ prev = [result |-> "none", processed |-> 0]
    /\ sumStore0 = EmptyStore
    /\ sumResult = "none"
    /\ sumStatus = "none"
    /\ chatFailed = FALSE
    /\ waited = FALSE

\* the command line of summarize, before its first invocation
InitSummarize ==
    /\ sumPc = "idle"
    /\ sumTarget \in SumTargets
    /\ rpm \in {None} \cup {Some(r) : r \in 1..MaxRpm}
    /\ rowids \in {<<"a", "b", "c">>, <<"b", "a", "c">>}
    /\ bucket = None
    /\ clock = 0
    /\ batch = <<>>
    /\ offset = 0
    /\ hasMore = TRUE
    /\ processed = 0
    /\ procUrls = {}
    /\ callTimes = <<>>
    /\ runNo = 0
    /\ prev = [result |-> "none", processed |-> 0]
    /\ sumStore0 = store
    /\ sumResult = "none"
    /\ sumStatus = "none"
    /\ chatFailed = FALSE
    /\ waited = FALSE

\* no chat response is being held
InitStripIdle ==
    /\ stripPc = "off"
    /\ chatResponse = <<>>
    /\ pageSummary = <<>>

\* model.chat has returned a response to summarize_page
InitResponse ==
    /\ stripPc = "idle"
    /\ chatResponse \in ChatTexts
    /\ pageSummary = <<>>

\* compose is not in use
InitComposeIdle ==
    /\ composePc = "off"
    /\ digest = <<>>

\* compose has been invoked on the table
InitComposing ==
    /\ composePc = "idle"
    /\ digest = <<>>

\* no task is using the shared Storage
InitLockIdle ==
    /\ connLock = None
    /\ taskPc = [t \in Tasks |-> "off"]
    /\ taskOp = [t \in Tasks |-> NoOp]
    /\ tempTable = {}

\* the tasks hold an Arc of one Storage and have called nothing yet
InitTasks ==
    /\ connLock = None
    /\ taskPc = [t \in Tasks |-> "idle"]
    /\ taskOp = [t \in Tasks |-> NoOp]
    /\ tempTable = {}

\* urls of sitemap documents; the call is made on the first
SmNames == {"s1", "s2"}
SmRoot == "s1"

\* a sitemap document: the locs of its url entries and, in document order,
\* the locs of its sitemap entries
SmDocuments ==
    [urls : SUBSET Urls,
     refs : UNION {[1..n -> SmNames] : n \in 0..MaxRefs}]

\* no sitemap is being read
InitSitemapIdle ==
    /\ smPc = "off"
    /\ smDocs = [n \in SmNames |-> [urls |-> {}, refs |-> <<>>]]
    /\ smStack = <<>>
    /\ smCurrent = SmRoot
    /\ smEntries = {}
    /\ smFetches = 0
    /\ smResult = "none"

\* extract_sitemap_url_entries(sitemap_url) has been called
InitExtract ==
    /\ smPc = "loop"
    /\ smDocs \in [SmNames -> SmDocuments]
    /\ smStack = <<SmRoot>>
    /\ smCurrent = SmRoot
    /\ smEntries = {}
    /\ smFetches = 0
    /\ smResult = "none"

\* prompt templates a caller can pass, None for the default one
PromptTemplates ==
    {None, Some(<<"q ", "{url}">>), Some(<<"q ", "{url}", " t ", "{text}">>),
     Some(<<"q">>), Some(<<"{text}", "{url}", "{text}">>), Some(<<"{text}">>)}

\* urls as Url::as_str gives them: braces stay as they are in a query
PromptUrls == {<<"u">>, <<"u?q=", "{text}">>, <<"u?q=", "{url}">>}

\* page texts
PromptTexts == {<<>>, <<"x">>, <<"x ", "{url}">>, <<"{text}">>}

\* no prompt is being built
InitPromptIdle ==
    /\ promptPc = "off"
    /\ promptTemplate = None
    /\ promptUrl = <<>>
    /\ promptText = <<>>
    /\ messages = <<>>

\* summarize_page(url, text, ctx) has been called
InitPrompt ==
    /\ promptPc = "idle"
    /\ promptTemplate \in PromptTemplates
    /\ promptUrl \in PromptUrls
    /\ promptText \in PromptTexts
    /\ messages = <<>>

\* nothing but the named command is in use
InitOthersIdle ==
    InitStripIdle /\ InitComposeIdle /\ InitLockIdle /\ InitSitemapIdle
    /\ InitPromptIdle

Init ==
    InitRun(ScrapeStores, ScrapeSitemaps) /\ InitOpIdle /\ InitSumIdle
    /\ InitOthersIdle

\* the first of several runs starts without a database file
InitRuns ==
    Init /\ ~fileExisted

InitDiff ==
    InitRun(DiffStores, DiffSitemaps) /\ InitOpIdle /\ InitSumIdle
    /\ InitOthersIdle

InitStore ==
    InitNoRun(ScrapeStores) /\ InitOpIdle /\ InitSumIdle /\ InitOthersIdle

InitSum ==
    InitNoRun(SumStores) /\ InitOpIdle /\ InitSummarize /\ InitOthersIdle

InitStrip ==
    InitNoRun({EmptyStore}) /\ InitOpIdle /\ InitSumIdle /\ InitResponse
    /\ InitComposeIdle /\ InitLockIdle /\ InitSitemapIdle /\ InitPromptIdle

InitLock ==
    InitNoRun(ScrapeStores) /\ InitOpIdle /\ InitSumIdle /\ InitStripIdle
    /\ InitComposeIdle /\ InitTasks /\ InitSitemapIdle /\ InitPromptIdle

\* summarize in unsummarized mode with no rate limit
InitLive ==
    /\ InitSum
    /\ sumTarget.kind = "Unsummarized"
    /\ rpm = None

InitCompose ==
    InitNoRun(ComposeStores) /\ InitOpIdle /\ InitSumIdle /\ InitStripIdle
    /\ InitComposing /\ InitLockIdle /\ InitSitemapIdle /\ InitPromptIdle

\* ------------------------------------------------------------ actions
\* Storage::new succeeds
StorageNew ==
    /\ UNCHANGED <<sitemapVars, promptVars>>
    /\ UNCHANGED <<opVars, sumVars, stripVars, composeVars, lockVars>>
    /\ pc = "init"
    /\ new' = StorageNewFlag(PathTryExists(fileExisted, statErr))
    /\ old' = StorageOldFlag(new')
    /\ pc' = "opened"
    /\ UNCHANGED <<scrapeRun, prevSitemap, prevPersisted, persisted, received,
                   upsertFailed, failedSent, fileExisted, statErr, store, store0, sitemap, lookupFail,
                   targets, chan, lagged, closed, visited, failedChan, intake,
                   emitted, now, bulkDeletes, result>>

\* Connection::open, init_schema, Website::build or the sitemap download fail:
\* setup_website_and_storage returns the error
SetupFails ==
    /\ UNCHANGED <<sitemapVars, promptVars>>
    /\ UNCHANGED <<opVars, sumVars, stripVars, composeVars, lockVars>>
    /\ pc \in {"init", "opened"}
    /\ pc' = "done"
    /\ result' = "Err"
    /\ UNCHANGED <<scrapeRun, prevSitemap, prevPersisted, persisted, received,
                   upsertFailed, failedSent, fileExisted, statErr, store, store0, new, old, sitemap,
                   lookupFail, targets, chan, lagged, closed, visited,
                   failedChan, intake, emitted, now, bulkDeletes>>

\* the rest of setup_website_and_storage, then subscribe and tokio::spawn
SetupTargets ==
    /\ UNCHANGED <<sitemapVars, promptVars>>
    /\ UNCHANGED <<opVars, sumVars, stripVars, composeVars, lockVars>>
    /\ pc = "opened"
    /\ \E failing \in SUBSET DOMAIN sitemap :
         /\ new => failing = {}
         /\ lookupFail' = failing
         /\ targets' = ScrapeUrls(new, store, sitemap, failing)
    /\ intake' = "running"
    /\ pc' = "crawl"
    /\ UNCHANGED <<scrapeRun, prevSitemap, prevPersisted, persisted, received,
                   upsertFailed, failedSent, fileExisted, statErr, store, store0, new, old, sitemap,
                   chan, lagged, closed, visited, failedChan, emitted, now,
                   bulkDeletes, result>>

\* the engine completes one fetch attempt and broadcasts its page
EngineEmit ==
    /\ UNCHANGED <<sitemapVars, promptVars>>
    /\ UNCHANGED <<opVars, sumVars, stripVars, composeVars, lockVars>>
    /\ pc = "crawl"
    /\ emitted < MaxEvents
    /\ \E ev \in Events :
         /\ visited' = visited \cup {ev.url}
         /\ IF intake # "running" THEN UNCHANGED <<chan, lagged>>
            ELSE IF Len(chan) < ChanCap
            THEN chan' = Append(chan, ev) /\ UNCHANGED lagged
            ELSE chan' = Append(Tail(chan), ev) /\ lagged' = TRUE
    /\ emitted' = emitted + 1
    /\ UNCHANGED <<scrapeRun, prevSitemap, prevPersisted, persisted, received,
                   upsertFailed, failedSent, fileExisted, statErr, store, store0, pc, new, old, sitemap,
                   lookupFail, targets, closed, failedChan, intake, now,
                   bulkDeletes, result>>

\* website.crawl() returns; website.unsubscribe()
CrawlDone ==
    /\ UNCHANGED <<sitemapVars, promptVars>>
    /\ UNCHANGED <<opVars, sumVars, stripVars, composeVars, lockVars>>
    /\ pc = "crawl"
    /\ closed' = TRUE
    /\ pc' = "await"
    /\ UNCHANGED <<scrapeRun, prevSitemap, prevPersisted, persisted, received,
                   upsertFailed, failedSent, fileExisted, statErr, store, store0, new, old, sitemap,
                   lookupFail, targets, chan, lagged, visited, failedChan,
                   intake, emitted, now, bulkDeletes, result>>

\* receiver.recv() returns Ok(page): one turn of the intake loop
IntakeRecv ==
    /\ UNCHANGED <<sitemapVars, promptVars>>
    /\ UNCHANGED <<opVars, sumVars, stripVars, composeVars, lockVars>>
    /\ intake = "running"
    /\ ~lagged
    /\ chan # <<>>
    /\ \E dbOk \in BOOLEAN :
         LET r == IntakeEvent(Head(chan), store, failedChan, now, dbOk) IN
         /\ store' = r.store
         /\ failedChan' = r.failed
         /\ failedSent' = failedSent \cup Range(r.failed)
         /\ intake' = IF r.stop THEN "aborted" ELSE "running"
         /\ upsertFailed' = (upsertFailed \/ r.err)
         /\ persisted' = IF r.failed = failedChan /\ ~r.err
                          THEN persisted \cup UrlParse(Head(chan).url)
                          ELSE persisted
    /\ chan' = Tail(chan)
    /\ received' = received + 1
    /\ UNCHANGED <<scrapeRun, prevSitemap, prevPersisted, fileExisted, statErr, store0, pc, new, old, sitemap,
                   lookupFail, targets, lagged, closed, visited, emitted, now,
                   bulkDeletes, result>>

\* receiver.recv() returns Err(Lagged): `while let Ok(..)` leaves the loop
IntakeLagged ==
    /\ UNCHANGED <<sitemapVars, promptVars>>
    /\ UNCHANGED <<opVars, sumVars, stripVars, composeVars, lockVars>>
    /\ intake = "running"
    /\ lagged
    /\ intake' = "ended"
    /\ UNCHANGED <<scrapeRun, prevSitemap, prevPersisted, persisted, received,
                   upsertFailed, failedSent, fileExisted, statErr, store, store0, pc, new, old, sitemap,
                   lookupFail, targets, chan, lagged, closed, visited,
                   failedChan, emitted, now, bulkDeletes, result>>

\* receiver.recv() returns Err(Closed): the channel is closed and drained
IntakeClosed ==
    /\ UNCHANGED <<sitemapVars, promptVars>>
    /\ UNCHANGED <<opVars, sumVars, stripVars, composeVars, lockVars>>
    /\ intake = "running"
    /\ ~lagged
    /\ chan = <<>>
    /\ closed
    /\ intake' = "ended"
    /\ UNCHANGED <<scrapeRun, prevSitemap, prevPersisted, persisted, received,
                   upsertFailed, failedSent, fileExisted, statErr, store, store0, pc, new, old, sitemap,
                   lookupFail, targets, chan, lagged, closed, visited,
                   failedChan, emitted, now, bulkDeletes, result>>

\* handle.await returns, then storage.old.then(..) and Ok(())
JoinAndThen ==
    /\ UNCHANGED <<sitemapVars, promptVars>>
    /\ UNCHANGED <<opVars, sumVars, stripVars, composeVars, lockVars>>
    /\ pc = "await"
    /\ HandleAwait(intake)
    /\ LET r == ThenCleanup(old, store, visited, failedChan) IN
         /\ store' = r.store
         /\ failedChan' = r.failed
         /\ bulkDeletes' = bulkDeletes + r.deletes
    /\ pc' = "done"
    /\ result' = "Ok"
    /\ UNCHANGED <<scrapeRun, prevSitemap, prevPersisted, persisted, received,
                   upsertFailed, failedSent, fileExisted, statErr, store0, new, old, sitemap, lookupFail,
                   targets, chan, lagged, closed, visited, intake, emitted, now>>

\* the clock advances
Tick ==
    /\ UNCHANGED <<sitemapVars, promptVars>>
    /\ UNCHANGED <<opVars, sumVars, stripVars, composeVars, lockVars>>
    /\ pc \in {"crawl", "await"}
    /\ now < MaxNow
    /\ now' = now + 1
    /\ UNCHANGED <<scrapeRun, prevSitemap, prevPersisted, persisted, received,
                   upsertFailed, failedSent, fileExisted, statErr, store, store0, pc, new, old, sitemap,
                   lookupFail, targets, chan, lagged, closed, visited,
                   failedChan, intake, emitted, bulkDeletes, result>>

\* process_sitemap is run again on the database the run before left, with
\* the sitemap as it is then
RunAgain ==
    /\ UNCHANGED <<sitemapVars, promptVars>>
    /\ pc = "done"
    /\ result = "Ok"
    /\ scrapeRun < MaxScrapeRuns
    /\ scrapeRun' = scrapeRun + 1
    /\ prevSitemap' = sitemap
    /\ prevPersisted' = persisted
    /\ persisted' = {}
    /\ fileExisted' = TRUE
    /\ statErr' \in BOOLEAN
    /\ store0' = store
    /\ pc' = "init"
    /\ new' = FALSE
    /\ old' = FALSE
    /\ sitemap' \in ScrapeSitemaps
    /\ lookupFail' = {}
    /\ targets' = {}
    /\ chan' = <<>>
    /\ lagged' = FALSE
    /\ closed' = FALSE
    /\ visited' = {}
    /\ failedChan' = <<>>
    /\ failedSent' = {}
    /\ intake' = "none"
    /\ upsertFailed' = FALSE
    /\ bulkDeletes' = 0
    /\ result' = "none"
    /\ UNCHANGED <<store, now, received, emitted, opVars, sumVars, stripVars,
                   composeVars, lockVars>>

\* a caller hands a Page to upsert_page; what it kept of its call before is
\* dropped
CallUpsertPage ==
    /\ UNCHANGED <<sitemapVars, promptVars>>
    /\ pc = "idle"
    /\ UNCHANGED updCall
    /\ opPc \in {"idle", "got"}
    /\ \E page \in Pages :
         /\ store' = UpsertPage(store, page)
         /\ written' = Some(page)
    /\ got' = None
    /\ opPc' = "upserted"
    /\ opStore0' = store'
    /\ visitedArg' = <<>>
    /\ removeRes' = None
    /\ artPage' = None
    /\ article' = None
    /\ applied' = None
    /\ UNCHANGED <<now, runVars, sumVars, stripVars, composeVars, lockVars>>

\* the caller reads the page back: get_page(page.url)
CallGetPage ==
    /\ UNCHANGED <<sitemapVars, promptVars>>
    /\ pc = "idle"
    /\ UNCHANGED updCall
    /\ opPc = "upserted"
    /\ got' = GetPage(store, Unwrap(written).url)
    /\ opPc' = "got"
    /\ UNCHANGED <<store, now, runVars, written, sumVars, stripVars, composeVars, lockVars, opStore0, visitedArg,
                   removeRes, artPage, article, applied>>

\* a caller hands a collection of urls to remove_unvisited_pages
CallRemoveUnvisitedPages ==
    /\ UNCHANGED <<sitemapVars, promptVars>>
    /\ pc = "idle"
    /\ UNCHANGED updCall
    /\ opPc \in {"idle", "got"}
    /\ \E urls \in VisitedLists :
         LET r == RemoveUnvisitedPages(store, urls) IN
         /\ visitedArg' = urls
         /\ store' = r.store
         /\ removeRes' = Some([ok |-> r.ok, count |-> r.count])
    /\ opStore0' = store
    /\ opPc' = "removed"
    /\ written' = None
    /\ got' = None
    /\ UNCHANGED <<now, runVars, sumVars, stripVars, composeVars, lockVars, artPage, article, applied>>

\* the caller applies an extracted article to the Page get_page returned
CallApplyArticle ==
    /\ UNCHANGED <<sitemapVars, promptVars>>
    /\ pc = "idle"
    /\ UNCHANGED updCall
    /\ opPc = "got"
    /\ got # None
    /\ \E a \in PageArticles :
         /\ artPage' = got
         /\ article' = Some(a)
         /\ applied' = Some(ApplyArticle(Unwrap(got), a))
    /\ opPc' = "applied"
    /\ UNCHANGED <<store, now, runVars, sumVars, stripVars, composeVars, lockVars, written, got, opStore0,
                   visitedArg, removeRes>>

\* a caller hands a url and a summary to update_page_summary
CallUpdatePageSummary ==
    /\ UNCHANGED <<sitemapVars, promptVars>>
    /\ pc = "idle"
    /\ opPc \in {"idle", "got"}
    /\ \E url \in Urls, summary \in UpdSummaries :
         /\ store' = UpdatePageSummary(store, url, summary)
         /\ updCall' = Some([url |-> url, summary |-> summary,
                             ok |-> UpdatePageSummaryOk(store, url)])
    /\ opStore0' = store
    /\ opPc' = "updated"
    /\ written' = None
    /\ got' = None
    /\ UNCHANGED <<now, runVars, sumVars, stripVars, composeVars, lockVars,
                   visitedArg, removeRes, artPage, article, applied>>

\* summarize is invoked: the limiter is built, the store opened
SumStart ==
    /\ UNCHANGED <<sitemapVars, promptVars>>
    /\ sumPc \in {"idle", "done"}
    /\ runNo < MaxRuns
    /\ runNo' = runNo + 1
    /\ prev' = [result |-> sumResult, processed |-> processed]
    /\ bucket' = IF rpm = None THEN None ELSE Some(TokenBucket(Unwrap(rpm), clock))
    /\ sumStore0' = store
    /\ batch' = <<>>
    /\ offset' = 0
    /\ hasMore' = TRUE
    /\ processed' = 0
    /\ procUrls' = {}
    /\ callTimes' = <<>>
    /\ sumResult' = "none"
    /\ sumStatus' = "none"
    /\ sumPc' = IF sumTarget.kind = "Page" THEN "single" ELSE "fetch"
    /\ chatFailed' = FALSE
    /\ waited' = FALSE
    /\ UNCHANGED <<scrapeVars, opVars, stripVars, composeVars, lockVars, sumTarget, rpm, rowids, clock>>

\* summarize_fetched_pages: fetcher(), and the break on an empty batch
SumFetch ==
    /\ UNCHANGED <<sitemapVars, promptVars>>
    /\ sumPc = "fetch"
    /\ LET fetched ==
               IF sumTarget.kind = "Unsummarized"
               THEN FetchUnsummarizedPages(store, FetchBatchSize, rowids)
               ELSE IF ~hasMore THEN <<>>
               ELSE FetchPages(store, FetchBatchSize, offset, rowids)
       IN /\ batch' = fetched
          /\ IF sumTarget.kind = "All" /\ hasMore
             THEN /\ offset' = offset + FetchBatchSize
                  /\ hasMore' = (Len(fetched) >= FetchBatchSize)
             ELSE UNCHANGED <<offset, hasMore>>
          /\ IF fetched = <<>>
             THEN /\ sumPc' = "done"
                  /\ sumResult' = "Ok"
                  /\ sumStatus' = Report(processed)
             ELSE /\ sumPc' = "limiter"
                  /\ UNCHANGED <<sumResult, sumStatus>>
    /\ UNCHANGED <<scrapeVars, opVars, stripVars, composeVars, lockVars, waited, chatFailed, sumTarget, rpm, rowids, bucket, clock,
                   processed, procUrls, callTimes, runNo, prev, sumStore0>>

\* summarize_single_page: fetch_page_content(url)
SumSingleFetch ==
    /\ UNCHANGED <<sitemapVars, promptVars>>
    /\ sumPc = "single"
    /\ LET content == FetchPageContent(store, sumTarget.url) IN
       IF content = None
       THEN /\ sumPc' = "done"
            /\ sumResult' = "Ok"
            /\ sumStatus' = Report(0)
            /\ UNCHANGED batch
       ELSE /\ batch' = <<[url |-> sumTarget.url, text |-> Unwrap(content)]>>
            /\ sumPc' = "limiter"
            /\ UNCHANGED <<sumResult, sumStatus>>
    /\ UNCHANGED <<scrapeVars, opVars, stripVars, composeVars, lockVars, waited, chatFailed, sumTarget, rpm, rowids, bucket, clock,
                   offset, hasMore, processed, procUrls, callTimes, runNo, prev,
                   sumStore0>>

\* summarize_page up to model.chat(): one try_acquire when a limiter is set;
\* once a token is taken the chat call is issued at once. Only the first
\* MaxCalls calls of an invocation are recorded.
SumTryAcquire ==
    /\ UNCHANGED <<sitemapVars, promptVars>>
    /\ sumPc = "limiter"
    /\ LET r == IF bucket = None
                THEN [ok |-> TRUE, bucket |-> None]
                ELSE LET a == TryAcquire(Unwrap(bucket), clock)
                     IN [ok |-> a.ok, bucket |-> Some(a.bucket)]
       IN /\ bucket' = r.bucket
          /\ sumPc' = IF r.ok THEN "chat" ELSE "sleep"
          /\ waited' = (waited \/ ~r.ok)
          /\ callTimes' = IF r.ok /\ Len(callTimes) < MaxCalls
                          THEN Append(callTimes, clock)
                          ELSE callTimes
    /\ UNCHANGED <<scrapeVars, opVars, stripVars, composeVars, lockVars, chatFailed, sumTarget, rpm, rowids, clock, batch,
                   offset, hasMore, processed, procUrls, runNo, prev,
                   sumStore0, sumResult, sumStatus>>

\* tokio::time::sleep(100 ms) returns: the loop tries again
SumSleep ==
    /\ UNCHANGED <<sitemapVars, promptVars>>
    /\ sumPc = "sleep"
    /\ sumPc' = "limiter"
    /\ UNCHANGED <<scrapeVars, opVars, stripVars, composeVars, lockVars, waited, chatFailed, sumTarget, rpm, rowids, bucket, clock,
                   batch, offset, hasMore, processed, procUrls, callTimes,
                   runNo, prev, sumStore0, sumResult, sumStatus>>

\* the chat call returns a response; the summary is written with
\* update_page_summary. processed is counted up to MaxCalls.
SumChatOk ==
    /\ UNCHANGED <<sitemapVars, promptVars>>
    /\ sumPc = "chat"
    /\ \E response \in Responses :
         store' = UpdatePageSummary(store, Head(batch).url, SummaryOf(response))
    /\ processed' = Min(processed + 1, MaxCalls)
    /\ waited' = FALSE
    /\ procUrls' = procUrls \cup {Head(batch).url}
    /\ batch' = Tail(batch)
    /\ IF sumTarget.kind = "Page"
       THEN /\ sumPc' = "done"
            /\ sumResult' = "Ok"
            /\ sumStatus' = Report(1)
       ELSE /\ sumPc' = IF Tail(batch) = <<>> THEN "fetch" ELSE "limiter"
            /\ UNCHANGED <<sumResult, sumStatus>>
    /\ UNCHANGED <<now, runVars, opVars, stripVars, composeVars, lockVars, chatFailed, sumTarget, rpm, rowids, bucket, clock,
                   offset, hasMore, callTimes, runNo, prev, sumStore0>>

\* the chat call fails: summarize_page returns the error
SumChatErr ==
    /\ UNCHANGED <<sitemapVars, promptVars>>
    /\ sumPc = "chat"
    /\ chatFailed' = TRUE
    /\ waited' = FALSE
    /\ IF PropagateChatError(sumTarget.kind)
       THEN /\ sumPc' = "done"
            /\ sumResult' = "Err"
            /\ UNCHANGED batch
       ELSE /\ batch' = Tail(batch)
            /\ sumPc' = IF sumTarget.kind = "Page" THEN "done"
                        ELSE IF Tail(batch) = <<>> THEN "fetch" ELSE "limiter"
            /\ sumResult' = IF sumTarget.kind = "Page" THEN "Ok" ELSE sumResult
    /\ UNCHANGED <<scrapeVars, opVars, stripVars, composeVars, lockVars, sumTarget, rpm, rowids,
                   bucket, clock, offset, hasMore, processed, procUrls,
                   callTimes, runNo, prev, sumStore0, sumStatus>>

\* time passes during an invocation
SumTick ==
    /\ UNCHANGED <<sitemapVars, promptVars>>
    /\ sumPc \notin {"off", "idle", "done"}
    /\ clock < MaxClock
    /\ clock' = clock + 1
    /\ UNCHANGED <<scrapeVars, opVars, stripVars, composeVars, lockVars, waited, chatFailed, sumPc, sumTarget, rpm, rowids, bucket,
                   batch, offset, hasMore, processed, procUrls, callTimes,
                   runNo, prev, sumStore0, sumResult, sumStatus>>

\* summarize_page after model.chat: the reasoning is stripped, the rest trimmed
StripThink ==
    /\ UNCHANGED <<sitemapVars, promptVars>>
    /\ stripPc = "idle"
    /\ pageSummary' = SummaryOf(chatResponse)
    /\ stripPc' = "stripped"
    /\ UNCHANGED <<scrapeVars, opVars, sumVars, composeVars, lockVars,
                   chatResponse>>

\* compose: the urls are listed, the file is truncated and the blocks written
Compose ==
    /\ UNCHANGED <<sitemapVars, promptVars>>
    /\ composePc = "idle"
    /\ \E urls \in ListUrls(store) : digest' = ComposeBlocks(store, urls)
    /\ composePc' = "done"
    /\ UNCHANGED <<scrapeVars, opVars, sumVars, stripVars, lockVars>>

NextCompose == Compose

\* a task calls a store operation: it is at self.conn.lock()
TaskCall(t) ==
    /\ UNCHANGED <<sitemapVars, promptVars>>
    /\ taskPc[t] = "idle"
    /\ \E o \in TaskOps : taskOp' = [taskOp EXCEPT ![t] = o]
    /\ taskPc' = [taskPc EXCEPT ![t] = "lock"]
    /\ UNCHANGED <<scrapeVars, opVars, sumVars, stripVars, composeVars,
                   connLock, tempTable>>

\* conn.lock() returns the guard
TaskLock(t) ==
    /\ UNCHANGED <<sitemapVars, promptVars>>
    /\ taskPc[t] = "lock"
    /\ MutexLock(connLock)
    /\ connLock' = Some(t)
    /\ taskPc' = [taskPc EXCEPT ![t] =
                     IF taskOp[t].op = "remove" THEN "create" ELSE taskOp[t].op]
    /\ UNCHANGED <<scrapeVars, opVars, sumVars, stripVars, composeVars,
                   taskOp, tempTable>>

\* upsert_page: the INSERT OR REPLACE, then the guard is dropped
TaskUpsert(t) ==
    /\ UNCHANGED <<sitemapVars, promptVars>>
    /\ taskPc[t] = "upsert"
    /\ store' = UpsertPage(store, Unwrap(taskOp[t].page))
    /\ connLock' = connLock \ {t}
    /\ taskPc' = [taskPc EXCEPT ![t] = "idle"]
    /\ UNCHANGED <<now, runVars, opVars, sumVars, stripVars, composeVars,
                   taskOp, tempTable>>

\* get_page: the SELECT, then the guard is dropped
TaskGet(t) ==
    /\ UNCHANGED <<sitemapVars, promptVars>>
    /\ taskPc[t] = "get"
    /\ connLock' = connLock \ {t}
    /\ taskPc' = [taskPc EXCEPT ![t] = "idle"]
    /\ UNCHANGED <<scrapeVars, opVars, sumVars, stripVars, composeVars,
                   taskOp, tempTable>>

\* remove_unvisited_pages: DROP TABLE IF EXISTS, CREATE TEMPORARY TABLE
TaskTempCreate(t) ==
    /\ UNCHANGED <<sitemapVars, promptVars>>
    /\ taskPc[t] = "create"
    /\ tempTable' = {}
    /\ taskPc' = [taskPc EXCEPT ![t] = "fill"]
    /\ UNCHANGED <<scrapeVars, opVars, sumVars, stripVars, composeVars,
                   connLock, taskOp>>

\* remove_unvisited_pages: the INSERT into the temp table; a url listed
\* twice fails it and the error is returned
TaskTempFill(t) ==
    /\ UNCHANGED <<sitemapVars, promptVars>>
    /\ taskPc[t] = "fill"
    /\ LET urls == taskOp[t].urls IN
       IF Cardinality(Range(urls)) # Len(urls)
       THEN /\ connLock' = connLock \ {t}
            /\ taskPc' = [taskPc EXCEPT ![t] = "idle"]
            /\ UNCHANGED tempTable
       ELSE /\ tempTable' = tempTable \cup Range(urls)
            /\ taskPc' = [taskPc EXCEPT ![t] = "delete"]
            /\ UNCHANGED connLock
    /\ UNCHANGED <<scrapeVars, opVars, sumVars, stripVars, composeVars,
                   taskOp>>

\* remove_unvisited_pages: the DELETE, then the guard is dropped
TaskDelete(t) ==
    /\ UNCHANGED <<sitemapVars, promptVars>>
    /\ taskPc[t] = "delete"
    /\ store' = DeleteNotInTemp(store, tempTable)
    /\ connLock' = connLock \ {t}
    /\ taskPc' = [taskPc EXCEPT ![t] = "idle"]
    /\ UNCHANGED <<now, runVars, opVars, sumVars, stripVars, composeVars,
                   taskOp, tempTable>>

NextLock ==
    \/ \E t \in Tasks : TaskCall(t)
    \/ \E t \in Tasks : TaskLock(t)
    \/ \E t \in Tasks : TaskUpsert(t)
    \/ \E t \in Tasks : TaskGet(t)
    \/ \E t \in Tasks : TaskTempCreate(t)
    \/ \E t \in Tasks : TaskTempFill(t)
    \/ \E t \in Tasks : TaskDelete(t)

NextStrip == StripThink

NextSum ==
    \/ SumStart
    \/ SumFetch
    \/ SumSingleFetch
    \/ SumTryAcquire
    \/ SumSleep
    \/ SumChatOk
    \/ SumChatErr
    \/ SumTick

\* parse_db_html on one url: the page is read, the extracted article applied
\* and the page written back
CallParsePage ==
    /\ UNCHANGED <<sitemapVars, promptVars>>
    /\ pc = "idle"
    /\ UNCHANGED updCall
    /\ opPc \in {"idle", "got"}
    /\ \E u \in Urls, a \in PageArticles :
         /\ store' = ParsePage(store, u, a)
         /\ artPage' = GetPage(store, u)
         /\ article' = Some(a)
         /\ applied' = IF GetPage(store, u) = None THEN None
                       ELSE Some(ApplyArticle(Unwrap(GetPage(store, u)), a))
    /\ opStore0' = store
    /\ written' = None
    /\ got' = None
    /\ opPc' = "parsed"
    /\ UNCHANGED <<now, runVars, sumVars, stripVars, composeVars, lockVars,
                   visitedArg, removeRes>>

\* while let Some(current_sitemap) = sitemaps_to_process.pop()
SmPop ==
    /\ smPc = "loop"
    /\ IF smStack = <<>>
       THEN /\ smPc' = "done"
            /\ smResult' = "Ok"
            /\ UNCHANGED <<smStack, smCurrent>>
       ELSE /\ smCurrent' = smStack[Len(smStack)]
            /\ smStack' = SubSeq(smStack, 1, Len(smStack) - 1)
            /\ smPc' = "get"
            /\ UNCHANGED smResult
    /\ UNCHANGED <<scrapeVars, opVars, sumVars, stripVars, composeVars,
                   lockVars, promptVars, smDocs, smEntries, smFetches>>

\* client.get(&current_sitemap).send() and response.bytes() return the body
SmGet ==
    /\ smPc = "get"
    /\ smFetches' = Min(smFetches + 1, MaxFetches)
    /\ smPc' = "read"
    /\ UNCHANGED <<scrapeVars, opVars, sumVars, stripVars, composeVars,
                   lockVars, promptVars, smDocs, smStack, smCurrent, smEntries,
                   smResult>>

\* the request or the read of the body fails: `?` returns the error
SmGetFails ==
    /\ smPc = "get"
    /\ smPc' = "done"
    /\ smResult' = "Err"
    /\ UNCHANGED <<scrapeVars, opVars, sumVars, stripVars, composeVars,
                   lockVars, promptVars, smDocs, smStack, smCurrent, smEntries,
                   smFetches>>

\* for entity in reader: url entries go to entries, sitemap entries are
\* pushed on sitemaps_to_process
SmRead ==
    /\ smPc = "read"
    /\ Len(smStack) + Len(smDocs[smCurrent].refs) <= MaxStack
    /\ smEntries' = smEntries \cup smDocs[smCurrent].urls
    /\ smStack' = smStack \o smDocs[smCurrent].refs
    /\ smPc' = "loop"
    /\ UNCHANGED <<scrapeVars, opVars, sumVars, stripVars, composeVars,
                   lockVars, promptVars, smDocs, smCurrent, smFetches,
                   smResult>>

NextSitemap == SmPop \/ SmGet \/ SmGetFails \/ SmRead

\* summarize_page builds the messages of the chat call
BuildPrompt ==
    /\ promptPc = "idle"
    /\ messages' = BuildMessages(promptTemplate, promptUrl, promptText)
    /\ promptPc' = "built"
    /\ UNCHANGED <<scrapeVars, opVars, sumVars, stripVars, composeVars,
                   lockVars, sitemapVars, promptTemplate, promptUrl,
                   promptText>>

NextPrompt == BuildPrompt

\* the steps of an invocation in unsummarized mode with no rate limit
NextLive ==
    \/ SumStart
    \/ SumFetch
    \/ SumTryAcquire
    \/ SumChatOk
    \/ SumChatErr

\* runs of process_sitemap in a row on one database
NextRuns ==
    \/ StorageNew
    \/ SetupFails
    \/ SetupTargets
    \/ EngineEmit
    \/ CrawlDone
    \/ IntakeRecv
    \/ IntakeLagged
    \/ IntakeClosed
    \/ JoinAndThen
    \/ Tick
    \/ RunAgain

NextStore ==
    \/ CallUpsertPage
    \/ CallGetPage
    \/ CallRemoveUnvisitedPages
    \/ CallApplyArticle
    \/ CallParsePage
    \/ CallUpdatePageSummary

NextDiff == StorageNew \/ SetupFails \/ SetupTargets

Next ==
    \/ StorageNew
    \/ SetupFails
    \/ SetupTargets
    \/ EngineEmit
    \/ CrawlDone
    \/ IntakeRecv
    \/ IntakeLagged
    \/ IntakeClosed
    \/ JoinAndThen
    \/ Tick

Spec == Init /\ [][Next]_vars

SpecDiff == InitDiff /\ [][NextDiff]_vars

SpecStore == InitStore /\ [][NextStore]_vars

SpecSum == InitSum /\ [][NextSum]_vars

\* an invocation that can take a step takes one: the fetch, the chat call
\* and the write all return
SpecLive == InitLive /\ [][NextLive]_vars /\ WF_vars(NextLive)

SpecRuns == InitRuns /\ [][NextRuns]_vars

InitSitemap ==
    InitNoRun({EmptyStore}) /\ InitOpIdle /\ InitSumIdle /\ InitStripIdle
    /\ InitComposeIdle /\ InitLockIdle /\ InitExtract /\ InitPromptIdle

\* a call that can take a step takes one: every request returns
SpecSitemap == InitSitemap /\ [][NextSitemap]_vars /\ WF_vars(NextSitemap)

InitPromptOnly ==
    InitNoRun({EmptyStore}) /\ InitOpIdle /\ InitSumIdle /\ InitStripIdle
    /\ InitComposeIdle /\ InitLockIdle /\ InitSitemapIdle /\ InitPrompt

SpecPrompt == InitPromptOnly /\ [][NextPrompt]_vars

SpecStrip == InitStrip /\ [][NextStrip]_vars

SpecCompose == InitCompose /\ [][NextCompose]_vars

SpecLock == InitLock /\ [][NextLock]_vars

\* ------------------------------------------------------------- claims
\* C1: an intake turn that receives a failed fetch (non-success status, or a
\* url that does not parse) leaves the table as it was and sends the url on
\* the failed-url channel.
C1_FailedFetchLeavesStore ==
    [][(/\ chan # <<>>
        /\ chan' = Tail(chan)
        /\ (~Head(chan).ok \/ UrlParse(Head(chan).url) = None))
       => (/\ store' = store
           /\ failedChan' = Append(failedChan, Head(chan).url))]_vars

\* both kinds of failed fetch were received, "a" having a row beforehand
C1_Witness ==
    /\ "a" \in DOMAIN store0
    /\ failedChan = <<"a", "%">>
    /\ store = store0

\* C2: a run on a table that pre-existed executes exactly one bulk delete,
\* after which no row is outside (visited urls) minus (failed urls).
C2_OneBulkDelete ==
    (pc = "done" /\ result = "Ok" /\ fileExisted)
    => (/\ bulkDeletes = 1
        /\ \A u \in DOMAIN store : u \in visited \ failedSent)

\* C3: a row that existed before the run, and whose url failed to fetch in
\* the run, is still in the table when process_sitemap has returned.
C3_FailedRowSurvives ==
    (pc = "done" /\ result = "Ok")
    => \A u \in DOMAIN store0 : u \in failedSent => u \in DOMAIN store

\* a run on a pre-existing table returned after a stored url failed
C3_Witness ==
    /\ pc = "done"
    /\ result = "Ok"
    /\ old
    /\ \E u \in DOMAIN store0 : u \in failedSent /\ u \in visited

\* C4: on a cold start (no database file before the run) no step of the run
\* removes a row.
C4_ColdStartNoDelete ==
    [][~fileExisted => \A u \in DOMAIN store : u \in DOMAIN store']_vars

\* a cold-start run returned with rows stored and urls visited
C4_Witness ==
    /\ ~fileExisted
    /\ pc = "done"
    /\ result = "Ok"
    /\ store # EmptyStore
    /\ DOMAIN store \ (visited \ failedSent) # {}

\* C5: the diff includes a sitemap url when it has no row, when its lastmod
\* is absent or unparsable, or when its concrete lastmod differs from the
\* stored one, and excludes it exactly when the row's lastmod equals the
\* concrete sitemap lastmod.
C5_ResolveModified ==
    (pc = "crawl" /\ ~new)
    => \A u \in DOMAIN sitemap :
         u \in targets
         <=> \/ u \notin DOMAIN store0
             \/ sitemap[u].kind # "DateTime"
             \/ sitemap[u].t # store0[u].lastmod * TicksPerSec

\* C6: on a cold start the target set is the full set of sitemap urls.
C6_ColdStartFullSet ==
    (pc = "crawl" /\ ~fileExisted) => targets = DOMAIN sitemap

\* a cold start that went through the diff, with concrete lastmods listed
C6_Witness ==
    /\ pc = "crawl"
    /\ ~fileExisted
    /\ ~new
    /\ DOMAIN sitemap = Urls
    /\ sitemap["a"].kind = "DateTime"
    /\ sitemap["b"].kind = "None"

\* C7: Storage::new sets new exactly when no database file existed, and old
\* is the negation of new.
C7_NewIffNoFile ==
    pc = "opened" => ((new <=> ~fileExisted) /\ (old <=> ~new))

\* C8: get_page(p.url) right after upsert_page(p) returns a Page equal to p
\* in every field, also when text or summary is absent.
C8_UpsertGetRoundTrip ==
    opPc = "got" => got = written

\* C9: with a cap of R requests per minute, no 60-second window of an
\* invocation holds more than R chat calls.
C9_RateCap ==
    rpm # None
    => \A t \in 0..MaxClock :
         Cardinality({i \in DOMAIN callTimes :
                        callTimes[i] >= t /\ callTimes[i] < t + MinuteSlots})
         <= Unwrap(rpm)

\* C10: of two unsummarized-mode invocations in a row with every chat call
\* answered, the first writes a summary for every row that lacked one and
\* for no other row; the second makes no chat call, processes nothing and
\* reports that there is nothing to do.
C10_TwiceInARow ==
    sumTarget.kind = "Unsummarized"
    => /\ (runNo = 1 /\ sumPc = "done" /\ sumResult = "Ok")
          => /\ procUrls = {u \in DOMAIN sumStore0 :
                              sumStore0[u].summary \in {None, Some(<<>>)}}
             /\ processed >= Cardinality(procUrls)
             /\ DOMAIN store = DOMAIN sumStore0
             /\ \A u \in DOMAIN store :
                   /\ store[u].summary \notin {None, Some(<<>>)}
                   /\ u \notin procUrls => store[u] = sumStore0[u]
       /\ (runNo = 2 /\ prev.result = "Ok")
          => /\ callTimes = <<>>
             /\ processed = 0
             /\ store = sumStore0
             /\ sumPc = "done" => (sumResult = "Ok" /\ sumStatus = "NothingToDo")

\* the second invocation ended after the first had summarized three rows
C10_Witness ==
    /\ sumTarget.kind = "Unsummarized"
    /\ runNo = 2
    /\ sumPc = "done"
    /\ prev = [result |-> "Ok", processed |-> 3]

\* C11: remove_unvisited_pages on a set V of urls (no url listed twice)
\* succeeds, leaves exactly the rows whose url is in V, each as it was, and
\* returns the number of rows whose url is not in V; an empty V removes every
\* row.
C11_RemoveUnvisited ==
    (opPc = "removed" /\ Cardinality(Range(visitedArg)) = Len(visitedArg))
    => LET V == Range(visitedArg) IN
       /\ Unwrap(removeRes).ok
       /\ DOMAIN store = DOMAIN opStore0 \cap V
       /\ \A u \in DOMAIN store : store[u] = opStore0[u]
       /\ Unwrap(removeRes).count = Cardinality(DOMAIN opStore0 \ V)
       /\ V = {} => store = EmptyStore

\* a table of two rows lost one of them to a list naming the other and a url
\* that has no row
C11_Witness ==
    /\ opPc = "removed"
    /\ DOMAIN opStore0 = {"a", "b"}
    /\ Range(visitedArg) = {"a", "c"}
    /\ Len(visitedArg) = 2
    /\ DOMAIN store = {"a"}
    /\ Unwrap(removeRes) = [ok |-> TRUE, count |-> 1]

\* C13: apply_article on a Page that has a title keeps that title when the
\* article has none and replaces it by the article's title when it has one
\* (so the title stays what it was only when the article has no title or the
\* same one); text becomes the article's text and no other field changes.
C13_ApplyArticle ==
    (opPc = "applied" /\ Unwrap(artPage).title # None)
    => LET p == Unwrap(artPage)
           a == Unwrap(article)
           q == Unwrap(applied)
       IN /\ a.title = None => q.title = p.title
          /\ a.title # None => q.title = a.title
          /\ q.title = p.title => (a.title = None \/ a.title = p.title)
          /\ q.text = Some(a.text)
          /\ q.url = p.url /\ q.added_at = p.added_at /\ q.lastmod = p.lastmod
          /\ q.html = p.html /\ q.summary = p.summary

\* an article with a title of its own was applied to a titled page
C13_Witness ==
    /\ opPc = "applied"
    /\ Unwrap(artPage).title = Some("t1")
    /\ Unwrap(article).title = Some("t2")
    /\ Unwrap(applied).title = Some("t2")

\* a response in which the reasoning tags pair up: every <think> is closed by
\* a </think> before the next one opens
RECURSIVE TagsPaired(_, _)
TagsPaired(s, open) ==
    IF s = <<>> THEN ~open
    ELSE IF Head(s) = "<think>" THEN ~open /\ TagsPaired(Tail(s), TRUE)
    ELSE IF Head(s) = "</think>" THEN open /\ TagsPaired(Tail(s), FALSE)
    ELSE TagsPaired(Tail(s), open)

\* such a response with each reasoning block and the white space after it
\* taken out, everything else kept
RECURSIVE WithoutBlocks(_)
WithoutBlocks(s) ==
    IF s = <<>> THEN <<>>
    ELSE IF Head(s) = "<think>"
    THEN LET j == SetMin({k \in DOMAIN s : s[k] = "</think>"})
         IN WithoutBlocks(TrimStart(SubSeq(s, j + 1, Len(s))))
    ELSE <<Head(s)>> \o WithoutBlocks(Tail(s))

\* C12: summarize_page returns the response with each <think>...</think>
\* block (an empty one too) and the white space after it removed, every
\* token outside a block kept, and the result trimmed.
C12_ThinkStripped ==
    (stripPc = "stripped" /\ TagsPaired(chatResponse, FALSE))
    => pageSummary = Trim(WithoutBlocks(chatResponse))

\* C14: process_sitemap passes handle.await only when the intake task has
\* returned, and once it is past that point (where reconciliation is) the
\* intake task takes no further event and writes nothing to the table.
C14_IntakeDoneBeforeCleanup ==
    [][/\ (pc = "await" /\ pc' = "done") => intake \in {"ended", "aborted"}
       /\ pc = "done" => (store' = store /\ received' = received)]_vars

\* a run on a pre-existing table reached its end after the intake task had
\* stored two pages and ended
C14_Witness ==
    /\ pc = "done"
    /\ result = "Ok"
    /\ fileExisted
    /\ old
    /\ intake = "ended"
    /\ received = 2
    /\ Cardinality(DOMAIN store \ DOMAIN store0) = 2

\* C15: when a run that reconciles (storage.old) has returned, the intake
\* task is over and every url it sent on the failed-url channel has been
\* drained from the channel by reconciliation.
C15_FailedAllDrained ==
    (pc = "done" /\ result = "Ok" /\ old)
    => (intake # "running" /\ failedChan = <<>>)

\* C16: without an upsert failure the intake task ends only when the event
\* channel is closed, and it has then received every event the engine
\* emitted.
C16_NoEventLost ==
    (intake = "ended" /\ ~upsertFailed) => (closed /\ received = emitted)

\* C17: after an upsert failure in the intake task no step short of the
\* return of process_sitemap writes to the table, sends a failed url or
\* takes an event from the channel.
C17_StopsAfterUpsertFailure ==
    [][(upsertFailed /\ pc' = pc)
       => (/\ store' = store
           /\ failedChan' = failedChan
           /\ received' = received)]_vars

\* the first upsert failed and the engine went on to emit another event
C17_Witness ==
    /\ upsertFailed
    /\ intake = "aborted"
    /\ received = 1
    /\ emitted = 2
    /\ pc = "done"

\* C18: process_sitemap returns an error when a lastmod lookup of the diff
\* or an upsert of the intake task has failed.
C18_StoreErrorSurfaces ==
    (/\ pc = "done"
     /\ \/ upsertFailed
        \/ ~new /\ \E u \in lookupFail : sitemap[u].kind = "DateTime")
    => result = "Err"

\* C19: once a chat call has failed in an unsummarized- or all-mode
\* invocation, summarize has returned an error; the failing step and every
\* later step of the invocation issue no chat call and leave the table as it
\* is (the summaries written before stay, the failing page and the pages
\* after it keep theirs), and every row the invocation did not process is as
\* it was at the start.
C19_ChatFailureAborts ==
    [][(/\ sumTarget.kind \in {"Unsummarized", "All"}
        /\ chatFailed'
        /\ runNo' = runNo)
       => (/\ sumPc' = "done"
           /\ sumResult' = "Err"
           /\ store' = store
           /\ callTimes' = callTimes
           /\ \A u \in DOMAIN store' :
                 u \notin procUrls' => store'[u] = sumStore0'[u])]_vars

\* an all-mode invocation on three rows failed on its second page
C19_Witness ==
    /\ sumTarget.kind = "All"
    /\ chatFailed
    /\ sumPc = "done"
    /\ sumResult = "Err"
    /\ Cardinality(DOMAIN store) = 3
    /\ Cardinality(procUrls) = 1
    /\ Head(batch).url \notin procUrls
    /\ store[Head(batch).url] = sumStore0[Head(batch).url]

\* C20: an invocation with nothing to do (unsummarized mode with no row
\* lacking a summary, all mode on an empty table, single mode for a url that
\* has no row) issues no chat call, writes nothing, never fails and ends
\* with success, reporting that there was nothing to do.
C20_NothingToDo ==
    (/\ runNo >= 1
     /\ \/ /\ sumTarget.kind = "Unsummarized"
           /\ \A u \in DOMAIN sumStore0 : ~SummaryMissing(sumStore0[u])
        \/ sumTarget.kind = "All" /\ sumStore0 = EmptyStore
        \/ sumTarget.kind = "Page" /\ sumTarget.url \notin DOMAIN sumStore0)
    => (/\ callTimes = <<>>
        /\ store = sumStore0
        /\ sumResult # "Err"
        /\ sumPc \in {"fetch", "single", "done"}
        /\ sumPc = "done" => (sumResult = "Ok" /\ sumStatus = "NothingToDo"))

\* single mode ended for a url that has no row, in a table with other rows
C20_Witness ==
    /\ sumTarget = [kind |-> "Page", url |-> "c"]
    /\ runNo = 1
    /\ "c" \notin DOMAIN sumStore0
    /\ sumStore0 # EmptyStore
    /\ sumPc = "done"
    /\ sumResult = "Ok"
    /\ sumStatus = "NothingToDo"

\* C21: the digest holds exactly one block for every row with a non-empty
\* summary and none for a row whose summary is absent or empty; the block's
\* heading is [title](url) when the row has a title, the bare url otherwise.
C21_ComposeBlocks ==
    composePc = "done"
    => LET full == {u \in DOMAIN store :
                      store[u].summary \notin {None, Some(<<>>)}}
           HeadingOf(u) ==
               IF store[u].title # None
               THEN <<"[", Unwrap(store[u].title), "](", u, ")">>
               ELSE <<u>>
       IN /\ Len(digest) = Cardinality(full)
          /\ \A u \in full :
                \E i \in DOMAIN digest :
                   digest[i] = [heading |-> HeadingOf(u),
                                summary |-> Unwrap(store[u].summary)]

\* C22: no step changes the added_at of a row that exists before and after
\* it.
C22_AddedAtImmutable ==
    [][\A u \in DOMAIN store \cap DOMAIN store' :
          store'[u].added_at = store[u].added_at]_vars

\* C23: no step leaves a row that had a title without one.
C23_TitleFillsIn ==
    [][\A u \in DOMAIN store \cap DOMAIN store' :
          store[u].title # None => store'[u].title # None]_vars

\* C24: at most one task is inside a store operation (past conn.lock()) at
\* any time, that task holds the mutex, and when remove_unvisited_pages
\* reaches its DELETE the temp table holds exactly the urls it was given.
C24_StoreOpsExclusive ==
    LET inside == {t \in Tasks : taskPc[t] \notin {"off", "idle", "lock"}} IN
    /\ Cardinality(inside) <= 1
    /\ \A t \in inside : connLock = Some(t)
    /\ \A t \in inside :
          taskPc[t] = "delete" => tempTable = Range(taskOp[t].urls)

\* one task is about to run the DELETE of remove_unvisited_pages while the
\* other waits at conn.lock() with a page to upsert
C24_Witness ==
    /\ taskPc["t1"] = "delete"
    /\ taskOp["t1"].urls = <<"a">>
    /\ DOMAIN store = {"a", "b"}
    /\ taskPc["t2"] = "lock"
    /\ taskOp["t2"].op = "upsert"
    /\ connLock = Some("t1")

\* C25: the batch fetch_unsummarized_pages(limit) returns holds only rows
\* whose summary is null or empty, each once and with its text, in ascending
\* added_at order; it holds the first `limit` of them (all of them when
\* there are fewer), so no row left out is older than a row returned.
C25_FetchUnsummarized ==
    [][(/\ sumTarget.kind = "Unsummarized"
        /\ sumPc = "fetch"
        /\ sumPc' # "fetch")
       => LET missing == {u \in DOMAIN store :
                            store[u].summary \in {None, Some(<<>>)}}
              rows == batch'
          IN /\ Len(rows) = Min(FetchBatchSize, Cardinality(missing))
             /\ \A i \in DOMAIN rows :
                   /\ rows[i].url \in missing
                   /\ rows[i].text = Unwrap(store[rows[i].url].text)
             /\ \A i, j \in DOMAIN rows :
                   i < j => /\ rows[i].url # rows[j].url
                            /\ store[rows[i].url].added_at
                                  <= store[rows[j].url].added_at
             /\ \A u \in missing \ {rows[i].url : i \in DOMAIN rows} :
                   \A i \in DOMAIN rows :
                      store[rows[i].url].added_at <= store[u].added_at]_vars

\* the first fetch on a table where the oldest row has an empty summary, the
\* next a filled one and the newest none
C25_Witness ==
    /\ sumTarget.kind = "Unsummarized"
    /\ sumPc = "limiter"
    /\ processed = 0
    /\ DOMAIN store = {"a", "b", "c"}
    /\ store["a"].summary = Some(<<>>)
    /\ store["b"].summary = Some(<<"s0">>)
    /\ store["c"].summary = None
    /\ Len(batch) = 2
    /\ batch[1].url = "a"
    /\ batch[2].url = "c"

C27_ParseFrame ==
    (opPc = "parsed" /\ artPage # None)
    => LET u == Unwrap(artPage).url
           a == Unwrap(article)
       IN /\ DOMAIN store = DOMAIN opStore0
          /\ \A v \in DOMAIN store : v # u => store[v] = opStore0[v]
          /\ store[u].added_at = opStore0[u].added_at
          /\ store[u].lastmod = opStore0[u].lastmod
          /\ store[u].html = opStore0[u].html
          /\ store[u].summary = opStore0[u].summary
          /\ store[u].text = Some(a.text)
          /\ store[u].title = IF a.title # None THEN a.title
                               ELSE opStore0[u].title

\* a page with a summary and a later added_at was parsed, next to another row
C27_Witness ==
    /\ opPc = "parsed"
    /\ artPage # None
    /\ Unwrap(artPage).url = "a"
    /\ DOMAIN opStore0 = {"a", "b"}
    /\ opStore0["a"].summary = Some(<<"s1">>)
    /\ opStore0["a"].added_at = 1
    /\ store["a"].text = Some("x2")
    /\ store["a"].summary = Some(<<"s1">>)

\* C28: every invocation in unsummarized mode comes to its end: after it has
\* started, a fetch eventually returns an empty batch (or a chat call fails).
C28_Terminates == (sumPc = "fetch") ~> (sumPc = "done")

\* C30: a row that was in the table before the run and whose url is listed
\* in the sitemap is still there when the run has returned.
C30_ListedPageKept ==
    (pc = "done" /\ result = "Ok")
    => \A u \in DOMAIN store0 \cap DOMAIN sitemap : u \in DOMAIN store

\* a run on a pre-existing table returned; the diff had excluded the stored
\* url "a" as unchanged and the engine visited only other urls
C30_Witness ==
    /\ pc = "done"
    /\ result = "Ok"
    /\ fileExisted
    /\ old
    /\ "a" \in DOMAIN store0 \cap DOMAIN sitemap
    /\ "a" \notin targets
    /\ "a" \notin visited
    /\ visited # {}
    /\ "a" \in DOMAIN store

\* C29: in a run that follows another on the same database, a url whose page
\* the run before stored and whose sitemap entry carries the same concrete
\* lastmod as in that run is not in the target set (its lookup succeeding).
C29_DiffIncremental ==
    (scrapeRun >= 2 /\ pc = "crawl" /\ ~new)
    => \A u \in prevPersisted \cap DOMAIN sitemap \cap DOMAIN prevSitemap :
         (/\ sitemap[u].kind = "DateTime"
          /\ sitemap[u] = prevSitemap[u]
          /\ u \notin lookupFail)
         => u \notin targets

\* C31: the intake task writes in the order it receives: once it has stored
\* a second success event for a url in a run, the row holds the html of that
\* later event and has neither text nor summary.
C31_IntakeOrder ==
    [][(/\ intake = "running"
        /\ intake' = "running"
        /\ chan # <<>>
        /\ received' = received + 1
        /\ failedChan' = failedChan
        /\ Head(chan).ok
        /\ UrlParse(Head(chan).url) \subseteq persisted)
       => LET u == Unwrap(UrlParse(Head(chan).url)) IN
          /\ u \in DOMAIN store'
          /\ store'[u].html = Head(chan).html
          /\ GetPage(store', u) # None
          /\ Unwrap(GetPage(store', u)).text = None
          /\ Unwrap(GetPage(store', u)).summary = None]_vars

\* C32: with a rate limiter, a chat call is only entered from a try_acquire
\* that found a token and took exactly one; a try_acquire that found none is
\* followed by the sleep, the sleep by another try_acquire, neither by a chat
\* call or an error; with a token back in the bucket the try_acquire succeeds.
C32_LimiterGate ==
    [][bucket # None =>
       LET b == Unwrap(bucket)
           avail == Min(b.capacity,
                        b.tokens + (clock - b.last) \div b.refill_every)
       IN /\ (sumPc' = "chat" /\ sumPc # "chat")
             => /\ sumPc = "limiter"
                /\ avail >= 1
                /\ Unwrap(bucket').tokens = avail - 1
          /\ (sumPc = "limiter" /\ sumPc' # "limiter" /\ avail = 0)
             => /\ sumPc' = "sleep"
                /\ sumResult' = sumResult
                /\ Unwrap(bucket').tokens = 0
          /\ (sumPc = "sleep" /\ sumPc' # "sleep")
             => /\ sumPc' = "limiter"
                /\ sumResult' = sumResult
                /\ bucket' = bucket
          /\ (sumPc = "limiter" /\ sumPc' # "limiter" /\ avail >= 1)
             => sumPc' = "chat"]_vars

\* a chat call is under way after a try_acquire that failed and a later one
\* that succeeded
C32_Witness ==
    sumPc = "chat" /\ bucket # None /\ waited

\* C33: a single-mode invocation for a url that has a row, with or without
\* a summary, issues exactly one chat call; when the call succeeds it ends
\* with a processed count of 1 and the table differs from the one it started
\* on in the summary of that row only.
C33_SingleMode ==
    (/\ sumTarget.kind = "Page"
     /\ runNo >= 1
     /\ sumTarget.url \in DOMAIN sumStore0)
    => LET url == sumTarget.url IN
       /\ Len(callTimes) <= 1
       /\ sumPc = "done" => Len(callTimes) = 1
       /\ (sumPc = "done" /\ ~chatFailed)
          => /\ sumResult = "Ok"
             /\ processed = 1
             /\ sumStatus = "Summarized"
             /\ procUrls = {url}
             /\ DOMAIN store = DOMAIN sumStore0
             /\ store[url].summary # None
             /\ \A u \in DOMAIN store :
                  store[u] = IF u = url
                             THEN [sumStore0[u] EXCEPT
                                     !.summary = store[url].summary]
                             ELSE sumStore0[u]

\* single mode ended for a url whose row already had a summary, in a table
\* that has another row without one
C33_Witness ==
    /\ sumTarget = [kind |-> "Page", url |-> "a"]
    /\ sumPc = "done"
    /\ sumResult = "Ok"
    /\ "a" \in DOMAIN sumStore0
    /\ sumStore0["a"].summary = Some(<<"s0">>)
    /\ store["a"].summary = Some(<<"x">>)
    /\ "b" \in DOMAIN store
    /\ store["b"].summary = None
    /\ Len(callTimes) = 1

\* C34: update_page_summary(url, s) returns success; when url has a row the
\* table afterwards differs from the one before in that row's summary only,
\* which is s; when url has no row the table is unchanged.
C34_UpdateSummaryFrame ==
    opPc = "updated"
    => LET c == Unwrap(updCall) IN
       /\ c.ok
       /\ DOMAIN store = DOMAIN opStore0
       /\ \A u \in DOMAIN store :
            store[u] = IF u = c.url
                       THEN [opStore0[u] EXCEPT !.summary = Some(c.summary)]
                       ELSE opStore0[u]

\* the summary of one of two rows was replaced
C34_Witness ==
    /\ opPc = "updated"
    /\ DOMAIN opStore0 = {"a", "b"}
    /\ Unwrap(updCall).url = "a"
    /\ store["a"].summary = Some(<<"s2">>)
    /\ opStore0["a"].summary # Some(<<"s2">>)

\* the call named a url that has no row, in a table with another row
C34_WitnessNoRow ==
    /\ opPc = "updated"
    /\ Unwrap(updCall).url \notin DOMAIN opStore0
    /\ opStore0 # EmptyStore

\* C35: remove_unvisited_pages on any collection of urls, one listing a url
\* more than once included, succeeds and leaves exactly the rows whose url
\* occurs in the collection.
C35_RemoveAnyCollection ==
    opPc = "removed"
    => /\ Unwrap(removeRes).ok
       /\ DOMAIN store = DOMAIN opStore0 \cap Range(visitedArg)
       /\ \A u \in DOMAIN store : store[u] = opStore0[u]

\* C36: extract_sitemap_url_entries ends for every finite collection of
\* sitemap documents, those whose sitemap references form a cycle or point
\* to themselves included.
C36_Terminates == <>(smPc = "done")

\* C37: summarize_page sends one message, the template with the url and the
\* text put in place of their placeholders, when the template holds the text
\* placeholder; otherwise it sends two, the template with the url put in
\* place of its placeholder and then the text.
C37_Messages ==
    promptPc = "built"
    => LET t == IF promptTemplate = None THEN DEFAULT_PROMPT_TEMPLATE
                ELSE Unwrap(promptTemplate)
           subst(tok) == IF tok = "{url}" THEN promptUrl
                         ELSE IF tok = "{text}" THEN promptText
                         ELSE <<tok>>
           Flat[i \in 0..Len(t)] ==
               IF i = 0 THEN <<>> ELSE Flat[i - 1] \o subst(t[i])
       IN IF Contains(t, "{text}")
          THEN messages = <<Flat[Len(t)]>>
          ELSE messages = <<Replace(t, "{url}", promptUrl), promptText>>

====
